---------------------------- MODULE Spec2Model ----------------------------
(***************************************************************************)
(* The daily Pinterest posting pipeline of pinterest_bot_enhanced.py       *)
(* (EnhancedPinterestBot) and pinterest_automation.py                      *)
(* (SkincareAffiliateBot), as a state machine.                             *)
(*                                                                         *)
(* A Python str is a sequence of one-character strings, so that lower(),   *)
(* the `in` substring test and slicing are computed, not assumed.  A       *)
(* Python value that may be a str or None is a record [type, val].  An     *)
(* unhandled exception moves pc to "crashed" and names itself in raised;   *)
(* sys.exit(1) moves pc to "exited"; a return from the entry function      *)
(* moves pc to "done" and sets result.                                     *)
(***************************************************************************)
EXTENDS Integers, Sequences, FiniteSets, TLC

VARIABLES
    entry,                 \* the function called from the top level
    pc,                    \* position in the code
    raised,                \* the exception that escaped, "none" if none did
    result,                \* return value of the entry function: "none", "True", "False"
    bestsellers,           \* what get_amazon_bestsellers() returns
    trending_ingredients,  \* self.trending_ingredients
    anthropic_key,         \* whether ANTHROPIC_API_KEY is configured
    use_ai,                \* argument of generate_and_post
    auto_post,             \* argument of generate_and_post
    product,               \* <<>> or <<the product select_daily_product returned>>
    ingredient,            \* the ingredient select_daily_product reports (PyNone if none)
    image_file,            \* <<>> (no file) or <<the product the image was drawn for>>
    desc_file,             \* <<>> (no file) or <<the text written to description_<date>.txt>>
    description,           \* local of generate_and_post, argument of create_pin_with_product_tag
    title,                 \* argument of create_pin_with_product_tag
    affiliate_link,        \* local of generate_and_post
    board_name,            \* argument of get_or_create_board
    board_id,              \* "unset" until get_or_create_board returns
    media_id,              \* "unset" until the upload registration answers
    pin_data,              \* <<>> or <<the payload of the create-pin request>>
    calls,                 \* the outbound calls issued so far, in order, with their answers
    answer,                \* <<>> or <<what input() returned at the review prompt>>
    history_file           \* posting_history.json

vars == <<entry, pc, raised, result, bestsellers, trending_ingredients, anthropic_key,
          use_ai, auto_post, product, ingredient, image_file, desc_file, description,
          title, affiliate_link, board_name, board_id, media_id, pin_data, calls, answer,
          history_file>>

---------------------------------------------------------------------------
(* Python values *)

PyStr(s) == [type |-> "str", val |-> s]
PyNone == [type |-> "NoneType", val |-> <<>>]

Min(S) == CHOOSE x \in S : \A y \in S : x <= y

Fill(n, c) == [i \in 1..n |-> c]

\* s[:n]
Slice(s, n) == SubSeq(s, 1, IF Len(s) < n THEN Len(s) ELSE n)

UpperChars == <<"A","B","C","D","E","F","G","H","I","J","K","L","M",
                "N","O","P","Q","R","S","T","U","V","W","X","Y","Z">>
LowerChars == <<"a","b","c","d","e","f","g","h","i","j","k","l","m",
                "n","o","p","q","r","s","t","u","v","w","x","y","z">>

LowerChar(c) ==
    IF \E i \in DOMAIN UpperChars : UpperChars[i] = c
    THEN LowerChars[CHOOSE i \in DOMAIN UpperChars : UpperChars[i] = c]
    ELSE c

\* str.lower()
lower(s) == [i \in 1..Len(s) |-> LowerChar(s[i])]

\* needle in hay
Contains(needle, hay) ==
    \E i \in 0..(Len(hay) - Len(needle)) : SubSeq(hay, i + 1, i + Len(needle)) = needle

\* All sequences over S of length at most n
RECURSIVE SeqsUpTo(_, _)
SeqsUpTo(S, n) ==
    IF n = 0 THEN {<<>>}
    ELSE LET shorter == SeqsUpTo(S, n - 1)
         IN shorter \cup {Append(s, x) : s \in {t \in shorter : Len(t) = n - 1}, x \in S}

---------------------------------------------------------------------------
(* Bounds and input pools *)

MaxCatalog == 2
MaxTrending == 2
MaxBoards == 2
LongNameLen == 81

IngredientPool == { <<"P","D","R","N">>, <<"r","e","t","i","n","o","l">> }

ProductPool ==
    { [asin |-> "B1", name |-> <<"P","d","r","n"," ","G","e","l">>, trending |-> t] :
        t \in BOOLEAN }
    \cup { [asin |-> "B2", name |-> <<"R","E","T","I","N","O","L">>, trending |-> t] :
        t \in BOOLEAN }
    \cup { [asin |-> "B3", name |-> <<"S","o","a","p">>, trending |-> t] : t \in BOOLEAN }

---------------------------------------------------------------------------
(* SkincareAffiliateBot: selection *)

\* Mutant: on a match the head of the list is reported
check_trending_match_HeadReported(trending, product_name) ==
    LET product_lower == lower(product_name)
        hits == {i \in 1..Len(trending) : Contains(lower(trending[i]), product_lower)}
    IN IF hits = {} THEN <<FALSE, PyNone>> ELSE <<TRUE, PyStr(trending[1])>>

\* (is_trending, ingredient): the first trending ingredient, in list order, that
\* the lower-cased product name contains.
check_trending_match(trending, product_name) ==
    LET product_lower == lower(product_name)
        hits == {i \in 1..Len(trending) : Contains(lower(trending[i]), product_lower)}
    IN IF hits = {} THEN <<FALSE, PyNone>> ELSE <<TRUE, PyStr(trending[Min(hits)])>>

\* Mutant: the bestseller flag is not looked at
SelectCondition_NoFlag(trending, p) ==
    check_trending_match(trending, p.name)[1]

\* A candidate is taken when its name matches and its own flag is set.
SelectCondition(trending, p) ==
    check_trending_match(trending, p.name)[1] /\ p.trending

\* Line 70: return bestsellers[0], or the exception raised when the list is
\* empty
FirstBestseller(candidates) ==
    IF Len(candidates) = 0
    THEN [raised |-> "IndexError", product |-> <<>>, ingredient |-> PyNone]
    ELSE [raised |-> "none", product |-> <<candidates[1]>>, ingredient |-> PyNone]

\* Lines 63-67: the loop over the bestsellers, from the i-th on; the ingredient
\* is the one printed at line 66
RECURSIVE SelectFrom(_, _, _)
SelectFrom(candidates, trending, i) ==
    IF i > Len(candidates) THEN FirstBestseller(candidates)
    ELSE IF SelectCondition(trending, candidates[i])
    THEN [raised |-> "none",
          product |-> <<candidates[i]>>,
          ingredient |-> check_trending_match(trending, candidates[i].name)[2]]
    ELSE SelectFrom(candidates, trending, i + 1)

\* Mutant: an empty catalog yields a placeholder product
select_daily_product_Placeholder(candidates, trending) ==
    IF Len(candidates) = 0
    THEN [raised |-> "none",
          product |-> <<[asin |-> "B9", name |-> <<"N","o","n","e">>, trending |-> FALSE]>>,
          ingredient |-> PyNone]
    ELSE SelectFrom(candidates, trending, 1)

\* The product returned, the ingredient reported with it, and the exception
\* raised instead when bestsellers[0] does not exist.
select_daily_product(candidates, trending) == SelectFrom(candidates, trending, 1)

---------------------------------------------------------------------------
(* Program constants *)

StatusOK == 200
StatusCreated == 201
TitleLimit == 100
DescriptionLimit == 800
TitlePrefix == 80
TemplateTailLen == 473
BaseTemplateTailLen == 670

\* The statuses a remote service answers with: the two the code tests for and
\* one outside 2xx.
Statuses == {StatusOK, StatusCreated, 500}

AffiliateTag == "wellnesslabco-20"
Today == "20261104"

\* "Daily Skincare Finds", the default of get_or_create_board's board_name
DefaultBoardName == <<"D","a","i","l","y"," ","S","k","i","n","c","a","r","e"," ",
                      "F","i","n","d","s">>

---------------------------------------------------------------------------
(* Descriptions *)

\* generate_template_description: the sparkles character U+2728 (written "*"
\* here), a space, the name, and a fixed text of TemplateTailLen characters,
\* which is written here as that many copies of "t".
generate_template_description(product_info) ==
    <<"*", " ">> \o product_info.name \o Fill(TemplateTailLen, "t")

\* SkincareAffiliateBot.generate_description: name + a fixed text of
\* BaseTemplateTailLen characters, written here as that many copies of "d".
generate_description(product_info) ==
    product_info.name \o Fill(BaseTemplateTailLen, "d")

\* An answer of the text-generation service: the call raised; or it returned a
\* status and a body that response.json()['content'][0]['text'] can be read
\* from (wellformed) or not.  The body is modelled where the code reads it.
AiTexts == { PyStr(<<"G","l","o","w">>), PyStr(<<>>), PyNone,
             PyStr(Fill(DescriptionLimit + 1, "g")) }

NoResponse == [raised |-> TRUE, status |-> 0, wellformed |-> FALSE]

AiResponses ==
    {NoResponse @@ [text |-> PyNone]}
    \cup {[raised |-> FALSE, status |-> s, wellformed |-> FALSE, text |-> PyNone] :
            s \in Statuses}
    \cup {[raised |-> FALSE, status |-> StatusOK, wellformed |-> TRUE, text |-> t] :
            t \in AiTexts}

\* The except clause of generate_ai_description (lines 106-108)
AiExceptHandler(product_info) ==
    [raised |-> "none", value |-> PyStr(generate_template_description(product_info))]

\* Lines 98-104: what is returned once the call has answered
AiOnResponse(product_info, resp) ==
    IF resp.status = StatusOK
    THEN IF resp.wellformed
         THEN [raised |-> "none", value |-> resp.text]
         ELSE AiExceptHandler(product_info)
    ELSE [raised |-> "none", value |-> PyStr(generate_template_description(product_info))]

\* generate_ai_description: whether the call is issued, the exception that
\* escapes ("none" if none) and the value returned.
generate_ai_description(key, product_info, resp) ==
    IF ~key
    THEN [called |-> FALSE, raised |-> "none",
          value |-> PyStr(generate_template_description(product_info))]
    ELSE [called |-> TRUE] @@
         (IF resp.raised THEN AiExceptHandler(product_info)
          ELSE AiOnResponse(product_info, resp))

\* Mutant: the use_ai argument is not looked at
WantsAi_IgnoresFlag(useAi, key) == key

\* Line 264: the condition under which generate_and_post asks for an AI description
WantsAi(useAi, key) == useAi /\ key

---------------------------------------------------------------------------
(* Links and records *)

\* Line 270
AffiliateLink(asin) == <<"https://www.amazon.com/dp/", asin, "/?tag=", AffiliateTag>>

\* Mutant: the record keeps the plain product page, not the link submitted
PostingRecord_PlainLink(product_info, link, timestamp) ==
    [date |-> timestamp, product |-> product_info.name, asin |-> product_info.asin,
     affiliate_link |-> <<"https://www.amazon.com/dp/", product_info.asin, "/">>]

\* Lines 327-332
PostingRecord(product_info, link, timestamp) ==
    [date |-> timestamp, product |-> product_info.name, asin |-> product_info.asin,
     affiliate_link |-> link]

OldRecord ==
    [date |-> "20261103", product |-> <<"S","o","a","p">>, asin |-> "B0",
     affiliate_link |-> AffiliateLink("B0")]

\* posting_history.json before the run: absent, not JSON, or a JSON array
RunHistoryFiles ==
    { [state |-> "absent", records |-> <<>>],
      [state |-> "malformed", records |-> <<>>],
      [state |-> "valid", records |-> <<OldRecord>>] }

\* posting_history.json before save_posting_record called on its own: absent,
\* not JSON, JSON that is no array, or an array of at most MaxHistory records
MaxHistory == 2
MaxRecords == 4

OlderRecord ==
    [date |-> "20261102", product |-> <<"P","d","r","n"," ","G","e","l">>, asin |-> "B1",
     affiliate_link |-> AffiliateLink("B1")]

HistoryFiles ==
    { [state |-> "absent", records |-> <<>>],
      [state |-> "malformed", records |-> <<>>],
      [state |-> "object", records |-> <<>>] }
    \cup { [state |-> "valid", records |-> h] :
             h \in SeqsUpTo({OlderRecord, OldRecord}, MaxHistory) }

\* Mutant: a file that is not JSON is read as an empty history
LoadHistory_EmptyOnError(file) ==
    IF file.state = "valid" THEN [raised |-> "none", history |-> file.records]
    ELSE [raised |-> "none", history |-> <<>>]

\* Lines 321-325: the history read, or the exception json.load raises
LoadHistory(file) ==
    IF file.state = "absent" THEN [raised |-> "none", history |-> <<>>]
    ELSE IF file.state \in {"valid", "object"}
    THEN [raised |-> "none", history |-> file.records]
    ELSE [raised |-> "JSONDecodeError", history |-> <<>>]

\* Mutant: the record is written over the last one kept
save_posting_record_Overwrite(file, product_info, link, timestamp) ==
    LET loaded == LoadHistory(file)
        kept == SubSeq(loaded.history, 1, Len(loaded.history) - 1)
    IN IF loaded.raised # "none"
       THEN [raised |-> loaded.raised, file |-> file]
       ELSE IF file.state = "object"
       THEN [raised |-> "AttributeError", file |-> file]
       ELSE [raised |-> "none",
             file |-> [state |-> "valid",
                       records |-> Append(kept,
                                          PostingRecord(product_info, link, timestamp))]]

\* save_posting_record: the file afterwards and the exception that escapes.
\* history.append raises AttributeError on JSON that is no array, before the
\* file is opened for writing.
save_posting_record(file, product_info, link, timestamp) ==
    LET loaded == LoadHistory(file)
    IN IF loaded.raised # "none"
       THEN [raised |-> loaded.raised, file |-> file]
       ELSE IF file.state = "object"
       THEN [raised |-> "AttributeError", file |-> file]
       ELSE [raised |-> "none",
             file |-> [state |-> "valid",
                       records |-> Append(loaded.history,
                                          PostingRecord(product_info, link, timestamp))]]

---------------------------------------------------------------------------
(* Review prompt *)

RECURSIVE LStrip(_)
LStrip(s) == IF s # <<>> /\ Head(s) = " " THEN LStrip(Tail(s)) ELSE s

RECURSIVE RStrip(_)
RStrip(s) == IF s # <<>> /\ s[Len(s)] = " " THEN RStrip(SubSeq(s, 1, Len(s) - 1)) ELSE s

\* str.strip()
strip(s) == RStrip(LStrip(s))

\* What input() may return
Answers == { <<"y","e","s">>, <<" ","Y">>, <<"n","o">>, <<>> }

\* Mutant: whatever is typed confirms
Confirmed_Always(raw) == TRUE

\* Lines 288-289: response.strip().lower() in ['yes', 'y']
Confirmed(raw) == lower(strip(raw)) \in { <<"y","e","s">>, <<"y">> }

---------------------------------------------------------------------------
(* Pinterest API *)

Board(n, i) == [name |-> n, id |-> i]

BoardPool == { Board(<<"d","a","i","l","y"," ","s","k","i","n","c","a","r","e"," ",
                       "F","I","N","D","S">>, "b1"),
               Board(DefaultBoardName, "b2"),
               Board(<<"O","t","h","e","r">>, "b3") }

\* The board lists a run is answered with; get_or_create_board on its own is
\* answered with every list of at most MaxBoards boards
RunBoardLists ==
    { <<>>,
      <<Board(<<"O","t","h","e","r">>, "b3")>>,
      <<Board(<<"O","t","h","e","r">>, "b3"), Board(DefaultBoardName, "b2")>>,
      <<Board(<<"d","a","i","l","y"," ","s","k","i","n","c","a","r","e"," ",
                "F","I","N","D","S">>, "b1"), Board(DefaultBoardName, "b2")>> }

ListResponses(lists) ==
    {NoResponse @@ [items |-> <<>>]}
    \cup {[raised |-> FALSE, status |-> s, wellformed |-> FALSE, items |-> <<>>] :
            s \in Statuses}
    \cup {[raised |-> FALSE, status |-> StatusOK, wellformed |-> TRUE, items |-> b] :
            b \in lists}

\* Mutant: the names are compared as they are
FindBoard_CaseSensitive(items, wanted) ==
    LET hits == {i \in 1..Len(items) : items[i].name = wanted}
    IN IF hits = {} THEN <<>> ELSE <<items[Min(hits)].id>>

\* Lines 137-140: the id of the first board whose lower-cased name is the
\* lower-cased wanted, as <<id>>; <<>> if there is none
FindBoard(items, wanted) ==
    LET hits == {i \in 1..Len(items) : lower(items[i].name) = lower(wanted)}
    IN IF hits = {} THEN <<>> ELSE <<items[Min(hits)].id>>

\* Lines 130-141: after the list call: return a board id, go on to create the
\* board, or let the exception escape
AfterList(resp, wanted) ==
    IF resp.raised THEN [next |-> "raise", raised |-> "RequestException", id |-> "unset"]
    ELSE IF resp.status = StatusOK
    THEN IF ~resp.wellformed
         THEN [next |-> "raise", raised |-> "JSONDecodeError", id |-> "unset"]
         ELSE IF FindBoard(resp.items, wanted) # <<>>
         THEN [next |-> "return", raised |-> "none",
               id |-> FindBoard(resp.items, wanted)[1]]
         ELSE [next |-> "create", raised |-> "none", id |-> "unset"]
    ELSE [next |-> "create", raised |-> "none", id |-> "unset"]

\* An answer with an id in its body
NewIds == {"new"}

IdResponses(ids) ==
    {NoResponse @@ [id |-> "unset"]}
    \cup {[raised |-> FALSE, status |-> s, wellformed |-> FALSE, id |-> "unset"] :
            s \in Statuses}
    \cup {[raised |-> FALSE, status |-> StatusCreated, wellformed |-> TRUE, id |-> i] :
            i \in ids}

\* Lines 154-158: after the create-board call
AfterCreateBoard(resp) ==
    IF resp.raised THEN [next |-> "raise", raised |-> "RequestException", id |-> "unset"]
    ELSE IF resp.status = StatusCreated
    THEN IF resp.wellformed
         THEN [next |-> "return", raised |-> "none", id |-> resp.id]
         ELSE [next |-> "raise", raised |-> "KeyError", id |-> "unset"]
    ELSE [next |-> "exit", raised |-> "SystemExit", id |-> "unset"]

\* media_id values the registration may answer with; "" is falsy at line 209
MediaIds == {"m1", ""}

\* Mutant: the status of the registration is not tested
AfterRegister_NoStatusTest(resp) ==
    IF resp.raised THEN [next |-> "raise", raised |-> "RequestException", id |-> "unset"]
    ELSE IF resp.wellformed
    THEN [next |-> "put", raised |-> "none", id |-> resp.id]
    ELSE [next |-> "put", raised |-> "none", id |-> "m1"]

\* Lines 174-180: after the upload registration; "none" is upload_image_to_pinterest
\* returning None
AfterRegister(resp) ==
    IF resp.raised THEN [next |-> "raise", raised |-> "RequestException", id |-> "unset"]
    ELSE IF resp.status # StatusCreated
    THEN [next |-> "none", raised |-> "none", id |-> "unset"]
    ELSE IF resp.wellformed
    THEN [next |-> "put", raised |-> "none", id |-> resp.id]
    ELSE [next |-> "raise", raised |-> "KeyError", id |-> "unset"]

PutResponses ==
    {NoResponse} \cup {[raised |-> FALSE, status |-> s, wellformed |-> TRUE] : s \in Statuses}

\* Mutant: any status but 500 counts as a transfer
AfterPut_Not500(resp, mid) ==
    IF resp.raised THEN [next |-> "raise", raised |-> "RequestException"]
    ELSE IF resp.status # 500 /\ mid # ""
    THEN [next |-> "pin", raised |-> "none"]
    ELSE [next |-> "none", raised |-> "none"]

\* Lines 189-194 and 208-210: after the byte transfer: the media id returned
\* and tested by create_pin_with_product_tag
AfterPut(resp, mid) ==
    IF resp.raised THEN [next |-> "raise", raised |-> "RequestException"]
    ELSE IF resp.status = StatusOK /\ mid # ""
    THEN [next |-> "pin", raised |-> "none"]
    ELSE [next |-> "none", raised |-> "none"]

\* Mutant: the title is submitted as given
PinTitle_NoLimit(t) == t

\* Lines 213-221: the payload of the create-pin request
PinTitle(t) == Slice(t, TitleLimit)
PinDescription(d) == Slice(d, DescriptionLimit)

PinData(bid, t, d, link, mid) ==
    [board_id |-> bid, title |-> PinTitle(t), description |-> PinDescription(d),
     link |-> link, media_id |-> mid]

\* The answers to the create-pin call: those of IdResponses, and a 200 whose
\* body carries the pin's id
PinResponses ==
    IdResponses({"pin1"})
    \cup {[raised |-> FALSE, status |-> StatusOK, wellformed |-> TRUE, id |-> "pin1"]}

\* Lines 234-246: after the create-pin call
AfterCreatePin(resp) ==
    IF resp.raised THEN [next |-> "raise", raised |-> "RequestException"]
    ELSE IF resp.status = StatusCreated
    THEN IF resp.wellformed
         THEN [next |-> "True", raised |-> "none"]
         ELSE [next |-> "raise", raised |-> "KeyError"]
    ELSE [next |-> "False", raised |-> "none"]

\* What the log keeps of a call; the action adds body: the boards a list
\* answer carried, the text a text-generation answer carried
Call(op, resp) ==
    [op |-> op, raised |-> resp.raised, status |-> resp.status, wellformed |-> resp.wellformed]

---------------------------------------------------------------------------
(* Initial states *)

Untouched ==
    /\ raised = "none"
    /\ result = "none"
    /\ product = <<>>
    /\ ingredient = PyNone
    /\ image_file = <<>>
    /\ desc_file = <<>>
    /\ description = PyNone
    /\ title = <<>>
    /\ affiliate_link = <<>>
    /\ board_id = "unset"
    /\ media_id = "unset"
    /\ pin_data = <<>>
    /\ calls = <<>>
    /\ answer = <<>>

\* select_daily_product() called on any catalog and any ingredient list
InitSelect ==
    /\ entry = "select_daily_product"
    /\ board_name = DefaultBoardName
    /\ pc = "select"
    /\ Untouched
    /\ bestsellers \in SeqsUpTo(ProductPool, MaxCatalog)
    /\ trending_ingredients \in SeqsUpTo(IngredientPool, MaxTrending)
    /\ anthropic_key = FALSE
    /\ use_ai = FALSE
    /\ auto_post = TRUE
    /\ history_file = [state |-> "absent", records |-> <<>>]

\* generate_and_post(auto_post, use_ai) on a catalog, a configuration and a
\* history file
ProductA == [asin |-> "B1", name |-> <<"P","d","r","n"," ","G","e","l">>, trending |-> TRUE]
ProductB == [asin |-> "B2", name |-> <<"S","o","a","p">>, trending |-> FALSE]
ProductLong == [asin |-> "B1", name |-> Fill(LongNameLen, "x"), trending |-> FALSE]
ProductNoAsin == [asin |-> "", name |-> <<"S","o","a","p">>, trending |-> TRUE]

RunCatalogs == { <<>>, <<ProductB, ProductA>>, <<ProductLong>>, <<ProductNoAsin>> }

RunTrending == << <<"P","D","R","N">>, <<"r","e","t","i","n","o","l">> >>

Init ==
    /\ entry = "generate_and_post"
    /\ board_name = DefaultBoardName
    /\ pc = "select"
    /\ Untouched
    /\ bestsellers \in RunCatalogs
    /\ trending_ingredients = RunTrending
    /\ anthropic_key \in BOOLEAN
    /\ use_ai \in BOOLEAN
    /\ auto_post \in BOOLEAN
    /\ history_file \in RunHistoryFiles

\* get_or_create_board(board_name) on any board name and any answer
BoardNames == { DefaultBoardName, <<"o","t","h","e","r">>, <<"N","e","w">> }

InitBoard ==
    /\ entry = "get_or_create_board"
    /\ board_name \in BoardNames
    /\ pc = "list_boards"
    /\ Untouched
    /\ bestsellers = <<>>
    /\ trending_ingredients = <<>>
    /\ anthropic_key = FALSE
    /\ use_ai = FALSE
    /\ auto_post = TRUE
    /\ history_file = [state |-> "absent", records |-> <<>>]

\* create_pin_with_product_tag(board_id, title, description, ...) on any title
\* and description
MaxTitleLen == 101
MaxDescriptionLen == 801

\* A text of n characters whose last character differs from the others
Sample(n) == [i \in 1..n |-> IF i = n THEN "z" ELSE IF i % 2 = 1 THEN "a" ELSE "b"]

PinTitles == {Sample(n) : n \in {0, 1} \cup ((TitleLimit - 1)..MaxTitleLen)}
PinDescriptions == {Sample(n) : n \in {0, 1} \cup ((DescriptionLimit - 1)..MaxDescriptionLen)}

InitPin ==
    /\ entry = "create_pin_with_product_tag"
    /\ pc = "register"
    /\ raised = "none"
    /\ result = "none"
    /\ bestsellers = <<>>
    /\ trending_ingredients = <<>>
    /\ anthropic_key = FALSE
    /\ use_ai = FALSE
    /\ auto_post = TRUE
    /\ product = <<>>
    /\ ingredient = PyNone
    /\ image_file \in {<<>>, <<ProductA>>}
    /\ desc_file = <<>>
    /\ description \in {PyStr(d) : d \in PinDescriptions}
    /\ title \in PinTitles
    /\ affiliate_link = AffiliateLink("B1")
    /\ board_name = DefaultBoardName
    /\ board_id = "b1"
    /\ media_id = "unset"
    /\ pin_data = <<>>
    /\ calls = <<>>
    /\ answer = <<>>
    /\ history_file = [state |-> "absent", records |-> <<>>]

\* save_posting_record(product, affiliate_link, timestamp) on any history file
InitSave ==
    /\ entry = "save_posting_record"
    /\ pc = "save_record"
    /\ raised = "none"
    /\ result = "none"
    /\ bestsellers = <<>>
    /\ trending_ingredients = <<>>
    /\ anthropic_key = FALSE
    /\ use_ai = FALSE
    /\ auto_post = TRUE
    /\ product \in {<<ProductA>>, <<ProductB>>}
    /\ ingredient = PyNone
    /\ image_file = <<>>
    /\ desc_file = <<>>
    /\ description = PyNone
    /\ title = <<>>
    /\ affiliate_link = AffiliateLink(product[1].asin)
    /\ board_name = DefaultBoardName
    /\ board_id = "unset"
    /\ media_id = "unset"
    /\ pin_data = <<>>
    /\ calls = <<>>
    /\ answer = <<>>
    /\ history_file \in HistoryFiles

---------------------------------------------------------------------------
(* Actions *)

config == <<entry, bestsellers, trending_ingredients, anthropic_key, use_ai, auto_post,
            board_name>>

\* select_daily_product(); in generate_and_post, line 256
SelectDailyProduct ==
    /\ pc = "select"
    /\ LET r == select_daily_product(bestsellers, trending_ingredients)
       IN /\ product' = r.product
          /\ ingredient' = r.ingredient
          /\ raised' = r.raised
          /\ pc' = IF r.raised # "none" THEN "crashed"
                   ELSE IF entry = "select_daily_product" THEN "done"
                   ELSE "render"
    /\ UNCHANGED <<config, result, image_file, desc_file, description, title,
                   affiliate_link, board_id, media_id, pin_data, calls, answer,
                   history_file>>

\* Lines 258-261: generate_pinterest_image writes the image file
GenerateImage ==
    /\ pc = "render"
    /\ image_file' = <<product[1]>>
    /\ pc' = "describe"
    /\ UNCHANGED <<config, raised, result, product, ingredient, desc_file, description,
                   title, affiliate_link, board_id, media_id, pin_data, calls, answer,
                   history_file>>

\* Lines 263-267: the AI description, with its call to the text-generation
\* service, or the description of SkincareAffiliateBot
Describe ==
    /\ pc = "describe"
    /\ IF WantsAi(use_ai, anthropic_key)
       THEN \E resp \in AiResponses :
              LET r == generate_ai_description(anthropic_key, product[1], resp)
              IN /\ calls' = IF r.called
                             THEN Append(calls, Call("text_generation", resp)
                                                 @@ [body |-> <<resp.text>>])
                             ELSE calls
                 /\ description' = r.value
                 /\ raised' = r.raised
                 /\ pc' = IF r.raised # "none" THEN "crashed" ELSE "write_description"
       ELSE /\ description' = PyStr(generate_description(product[1]))
            /\ pc' = "write_description"
            /\ UNCHANGED <<calls, raised>>
    /\ UNCHANGED <<config, result, product, ingredient, image_file, desc_file, title,
                   affiliate_link, board_id, media_id, pin_data, answer, history_file>>

\* Lines 269-284: the affiliate link, the description file, the preview.
\* open(desc_path, 'w') creates the file before f.write(description) raises
\* TypeError on a description that is no str.
WriteDescription ==
    /\ pc = "write_description"
    /\ affiliate_link' = AffiliateLink(product[1].asin)
    /\ IF description.type = "str"
       THEN /\ desc_file' = <<description.val>>
            /\ raised' = raised
            /\ pc' = IF auto_post THEN "list_boards" ELSE "review"
       ELSE /\ desc_file' = << <<>> >>
            /\ raised' = "TypeError"
            /\ pc' = "crashed"
    /\ UNCHANGED <<config, result, product, ingredient, image_file, description, title,
                   board_id, media_id, pin_data, calls, answer, history_file>>

\* Mutant: an answer that is no yes brings the prompt up again
Review_AsksAgain ==
    /\ pc = "review"
    /\ \/ /\ raised' = "EOFError"
          /\ pc' = "crashed"
          /\ UNCHANGED <<answer, result>>
       \/ \E raw \in Answers :
            /\ answer' = <<raw>>
            /\ raised' = raised
            /\ result' = result
            /\ pc' = IF Confirmed(raw) THEN "list_boards" ELSE "review"
    /\ UNCHANGED <<config, product, ingredient, image_file, desc_file, description, title,
                   affiliate_link, board_id, media_id, pin_data, calls, history_file>>

\* Lines 286-291: the review prompt; input() raises EOFError without a stdin
Review ==
    /\ pc = "review"
    /\ \/ /\ raised' = "EOFError"
          /\ pc' = "crashed"
          /\ UNCHANGED <<answer, result>>
       \/ \E raw \in Answers :
            /\ answer' = <<raw>>
            /\ raised' = raised
            /\ IF Confirmed(raw)
               THEN pc' = "list_boards" /\ result' = result
               ELSE pc' = "done" /\ result' = "False"
    /\ UNCHANGED <<config, product, ingredient, image_file, desc_file, description, title,
                   affiliate_link, board_id, media_id, pin_data, calls, history_file>>

\* Line 297, and the entry of create_pin_with_product_tag
TitleOf(product_info) == Slice(product_info.name, TitlePrefix)

\* Mutant: the board is looked up again once it has been obtained
AfterBoard_ListAgain ==
    IF entry = "get_or_create_board" THEN "done"
    ELSE IF Len(calls) < 3 THEN "list_boards" ELSE "register"

\* Where get_or_create_board returns to: line 294 of generate_and_post, or its
\* own caller
AfterBoard == IF entry = "get_or_create_board" THEN "done" ELSE "register"

\* get_or_create_board, lines 130-140: the board-list call
ListBoards ==
    /\ pc = "list_boards"
    /\ \E resp \in ListResponses(IF entry = "get_or_create_board"
                                   THEN SeqsUpTo(BoardPool, MaxBoards)
                                   ELSE RunBoardLists) :
         LET r == AfterList(resp, board_name)
         IN /\ calls' = Append(calls, Call("list_boards", resp) @@ [body |-> resp.items])
            /\ raised' = r.raised
            /\ board_id' = r.id
            /\ pc' = CASE r.next = "raise" -> "crashed"
                       [] r.next = "create" -> "create_board"
                       [] r.next = "return" -> AfterBoard
            /\ title' = IF r.next = "return" /\ entry = "generate_and_post"
                        THEN TitleOf(product[1]) ELSE title
    /\ UNCHANGED <<config, result, product, ingredient, image_file, desc_file, description,
                   affiliate_link, media_id, pin_data, answer, history_file>>

\* get_or_create_board, lines 142-158: the create-board call
CreateBoard ==
    /\ pc = "create_board"
    /\ \E resp \in IdResponses(NewIds) :
         LET r == AfterCreateBoard(resp)
         IN /\ calls' = Append(calls, Call("create_board", resp) @@ [body |-> <<>>])
            /\ raised' = r.raised
            /\ board_id' = r.id
            /\ pc' = CASE r.next = "raise" -> "crashed"
                       [] r.next = "exit" -> "exited"
                       [] r.next = "return" -> AfterBoard
            /\ title' = IF r.next = "return" /\ entry = "generate_and_post"
                        THEN TitleOf(product[1]) ELSE title
    /\ UNCHANGED <<config, result, product, ingredient, image_file, desc_file, description,
                   affiliate_link, media_id, pin_data, answer, history_file>>

\* upload_image_to_pinterest, lines 164-180: the image is read, then the upload
\* is registered.  None returned makes create_pin_with_product_tag return
\* False (line 210) and generate_and_post return False (line 315).
Register ==
    /\ pc = "register"
    /\ IF image_file = <<>>
       THEN /\ raised' = "FileNotFoundError"
            /\ pc' = "crashed"
            /\ UNCHANGED <<calls, media_id, result>>
       ELSE \E resp \in IdResponses(MediaIds) :
              LET r == AfterRegister(resp)
              IN /\ calls' = Append(calls, Call("register_upload", resp) @@ [body |-> <<>>])
                 /\ raised' = r.raised
                 /\ media_id' = r.id
                 /\ pc' = CASE r.next = "raise" -> "crashed"
                            [] r.next = "none" -> "done"
                            [] r.next = "put" -> "put"
                 /\ result' = IF r.next = "none" THEN "False" ELSE result
    /\ UNCHANGED <<config, product, ingredient, image_file, desc_file, description, title,
                   affiliate_link, board_id, pin_data, answer, history_file>>

\* Mutant: a refused transfer removes the image file
PutBytes_RemovesImage ==
    /\ pc = "put"
    /\ \E resp \in PutResponses :
         LET r == AfterPut(resp, media_id)
         IN /\ calls' = Append(calls, Call("put_bytes", resp) @@ [body |-> <<>>])
            /\ raised' = r.raised
            /\ pc' = CASE r.next = "raise" -> "crashed"
                       [] r.next = "none" -> "done"
                       [] r.next = "pin" -> "create_pin"
            /\ result' = IF r.next = "none" THEN "False" ELSE result
            /\ image_file' = IF r.next = "none" THEN <<>> ELSE image_file
    /\ UNCHANGED <<config, product, ingredient, desc_file, description, title,
                   affiliate_link, board_id, media_id, pin_data, answer, history_file>>

\* upload_image_to_pinterest, lines 182-194, and lines 208-210
PutBytes ==
    /\ pc = "put"
    /\ \E resp \in PutResponses :
         LET r == AfterPut(resp, media_id)
         IN /\ calls' = Append(calls, Call("put_bytes", resp) @@ [body |-> <<>>])
            /\ raised' = r.raised
            /\ pc' = CASE r.next = "raise" -> "crashed"
                       [] r.next = "none" -> "done"
                       [] r.next = "pin" -> "create_pin"
            /\ result' = IF r.next = "none" THEN "False" ELSE result
    /\ UNCHANGED <<config, product, ingredient, image_file, desc_file, description, title,
                   affiliate_link, board_id, media_id, pin_data, answer, history_file>>

\* create_pin_with_product_tag, lines 212-246: the create-pin call.  True
\* returned takes generate_and_post to save_posting_record (line 308).
CreatePin ==
    /\ pc = "create_pin"
    /\ pin_data' = <<PinData(board_id, title, description.val, affiliate_link, media_id)>>
    /\ \E resp \in PinResponses :
         LET r == AfterCreatePin(resp)
         IN /\ calls' = Append(calls, Call("create_pin", resp) @@ [body |-> <<>>])
            /\ raised' = r.raised
            /\ pc' = CASE r.next = "raise" -> "crashed"
                       [] r.next = "False" -> "done"
                       [] r.next = "True" ->
                            IF entry = "generate_and_post" THEN "save_record" ELSE "done"
            /\ result' = CASE r.next = "False" -> "False"
                           [] r.next = "True" /\ entry # "generate_and_post" -> "True"
                           [] OTHER -> result
    /\ UNCHANGED <<config, product, ingredient, image_file, desc_file, description, title,
                   affiliate_link, board_id, media_id, answer, history_file>>

\* Lines 307-312: save_posting_record, then generate_and_post returns True
SaveRecord ==
    /\ pc = "save_record"
    /\ LET r == save_posting_record(history_file, product[1], affiliate_link, Today)
       IN /\ history_file' = r.file
          /\ raised' = r.raised
          /\ pc' = IF r.raised # "none" THEN "crashed" ELSE "done"
          /\ result' = IF r.raised = "none" /\ entry = "generate_and_post"
                        THEN "True" ELSE result
    /\ UNCHANGED <<config, product, ingredient, image_file, desc_file, description, title,
                   affiliate_link, board_id, media_id, pin_data, calls, answer>>

\* The save_posting_record of a later run, on the file the earlier ones left
LaterSave ==
    /\ entry = "save_posting_record"
    /\ pc = "done"
    /\ Len(history_file.records) < MaxRecords
    /\ \E p \in {ProductA, ProductB} :
         /\ product' = <<p>>
         /\ affiliate_link' = AffiliateLink(p.asin)
    /\ pc' = "save_record"
    /\ UNCHANGED <<config, raised, result, ingredient, image_file, desc_file, description,
                   title, board_id, media_id, pin_data, calls, answer, history_file>>

Next ==
    \/ SelectDailyProduct
    \/ GenerateImage
    \/ Describe
    \/ WriteDescription
    \/ Review
    \/ ListBoards
    \/ CreateBoard
    \/ Register
    \/ PutBytes
    \/ CreatePin
    \/ SaveRecord

Spec == Init /\ [][Next]_vars

SelectNext == SelectDailyProduct

SelectSpec == InitSelect /\ [][SelectNext]_vars

BoardNext == ListBoards \/ CreateBoard

BoardSpec == InitBoard /\ [][BoardNext]_vars

PinNext == Register \/ PutBytes \/ CreatePin

PinSpec == InitPin /\ [][PinNext]_vars

\* A run whose calls and whose prompt all come back: every step that can be
\* taken is taken in the end
LiveSpec == Spec /\ WF_vars(Next)

SaveNext == SaveRecord \/ LaterSave

SaveSpec == InitSave /\ [][SaveNext]_vars

---------------------------------------------------------------------------
(* Properties *)

Is2xx(status) == status \in 200..299

Answered(c) == ~c.raised

CallsOf(op) == {k \in DOMAIN calls : calls[k].op = op}

PlatformOps == {"list_boards", "create_board", "register_upload", "put_bytes", "create_pin"}

PlatformCalls == {k \in DOMAIN calls : calls[k].op \in PlatformOps}

NameMatches(b) == lower(b.name) = lower(board_name)

\* A list answer that carried a board of the wanted name
ListedMatch(c) ==
    /\ c.op = "list_boards" /\ Answered(c) /\ c.status = 200 /\ c.wellformed
    /\ \E n \in DOMAIN c.body : NameMatches(c.body[n])

\* A call after which a board id is in hand
BoardObtained(c) ==
    \/ ListedMatch(c)
    \/ c.op = "create_board" /\ Answered(c) /\ c.status = 201 /\ c.wellformed

RegisterSucceeded(c) ==
    c.op = "register_upload" /\ Answered(c) /\ c.status = 201 /\ c.wellformed

TransferSucceeded(c) == c.op = "put_bytes" /\ Answered(c) /\ c.status = 200

PinCreated(c) == c.op = "create_pin" /\ Answered(c) /\ c.status = 201 /\ c.wellformed

\* The history file holds a record of this run (earlier records carry an
\* earlier date)
RecordWritten ==
    \E i \in DOMAIN history_file.records : history_file.records[i].date = Today

RunFailed == pc = "done" /\ result = "False"

\* C1: select_daily_product on a non-empty catalog returns the first candidate,
\* in catalog order, whose name contains some trending ingredient
\* case-insensitively and whose flag is set; if there is none it returns the
\* first candidate.
Qualifies(p) ==
    /\ p.trending
    /\ \E k \in DOMAIN trending_ingredients :
         Contains(lower(trending_ingredients[k]), lower(p.name))

C1_SelectsFirstTrendingBestseller ==
    (pc # "select" /\ Len(bestsellers) > 0) =>
        /\ pc = "done"
        /\ raised = "none"
        /\ \/ \E i \in DOMAIN bestsellers :
                /\ Qualifies(bestsellers[i])
                /\ \A j \in 1..(i - 1) : ~Qualifies(bestsellers[j])
                /\ product = <<bestsellers[i]>>
           \/ /\ \A i \in DOMAIN bestsellers : ~Qualifies(bestsellers[i])
              /\ product = <<bestsellers[1]>>

\* C1 witness: the second candidate was selected over a different first one
C1_Witness ==
    /\ pc = "done"
    /\ Len(bestsellers) = 2
    /\ bestsellers[1] # bestsellers[2]
    /\ product = <<bestsellers[2]>>

\* C2: the steps come in the order board resolution, registration, byte
\* transfer, create-pin; each is issued only after the one before it has
\* succeeded, so the create-pin request is issued only after a board id was
\* obtained, the upload was registered and the bytes were transferred.
StepOf(op) ==
    CASE op = "text_generation" -> 0
      [] op \in {"list_boards", "create_board"} -> 1
      [] op = "register_upload" -> 2
      [] op = "put_bytes" -> 3
      [] op = "create_pin" -> 4

C2_PublishStepsInOrder ==
    /\ \A i, j \in DOMAIN calls : i < j => StepOf(calls[i].op) <= StepOf(calls[j].op)
    /\ \A k \in CallsOf("register_upload") :
         (\E i \in 1..(k - 1) : BoardObtained(calls[i])) /\ board_id # "unset"
    /\ \A k \in CallsOf("put_bytes") :
         k > 1 /\ RegisterSucceeded(calls[k - 1])
    /\ \A k \in CallsOf("create_pin") :
         /\ k > 3 /\ TransferSucceeded(calls[k - 1]) /\ RegisterSucceeded(calls[k - 2])
         /\ \E i \in 1..(k - 3) : BoardObtained(calls[i])
         /\ pin_data # <<>> /\ pin_data[1].board_id = board_id /\ board_id # "unset"

\* C2 witness: a create-pin request was issued for a board created in this run
C2_Witness ==
    /\ CallsOf("create_pin") # {}
    /\ CallsOf("create_board") # {}
    /\ board_id = "new"

\* C3: when the registration succeeded and the byte transfer answered with a
\* status other than 200, the run ends failed: no create-pin request, no
\* record in the history.
TransferRefused(c) == c.op = "put_bytes" /\ Answered(c) /\ c.status # 200

C3_RefusedTransferFails ==
    (\E k \in DOMAIN calls :
        k > 1 /\ TransferRefused(calls[k]) /\ RegisterSucceeded(calls[k - 1]))
    => /\ RunFailed
       /\ CallsOf("create_pin") = {}
       /\ pin_data = <<>>
       /\ ~RecordWritten

\* C3 witness: the transfer was refused with 201 after a successful registration
C3_Witness ==
    /\ Len(calls) > 1
    /\ calls[Len(calls)].op = "put_bytes"
    /\ calls[Len(calls)].status = 201
    /\ RegisterSucceeded(calls[Len(calls) - 1])
    /\ pc = "done"

\* C4: when the board list carries a board whose name is the wanted name up to
\* case, get_or_create_board returns the id of such a board and no create-board
\* call is issued in the run.
C4_ExistingBoardReused ==
    \A k \in DOMAIN calls :
        ListedMatch(calls[k]) =>
            /\ board_id \in {calls[k].body[n].id :
                               n \in {m \in DOMAIN calls[k].body : NameMatches(calls[k].body[m])}}
            /\ CallsOf("create_board") = {}

\* C4 witness: the only listed board matches in another case than the wanted name
C4_Witness ==
    \E k \in DOMAIN calls :
        /\ ListedMatch(calls[k])
        /\ Len(calls[k].body) = 1
        /\ calls[k].body[1].name # board_name
        /\ board_id = calls[k].body[1].id

\* C5 (as claimed): a board call that raises or answers outside 2xx ends the
\* run failed, with no later call and no record; create-board is issued only
\* after a list call that succeeded and carried no board of the wanted name.
BoardCallFailed(c) ==
    /\ c.op \in {"list_boards", "create_board"}
    /\ c.raised \/ ~Is2xx(c.status)

ListedNoMatch(c) ==
    /\ c.op = "list_boards" /\ Answered(c) /\ Is2xx(c.status) /\ c.wellformed
    /\ \A n \in DOMAIN c.body : ~NameMatches(c.body[n])

C5_BoardFailureIsFatal ==
    /\ \A k \in DOMAIN calls :
         BoardCallFailed(calls[k]) =>
            /\ k = Len(calls)
            /\ pc \in {"crashed", "exited", "done"}
            /\ result # "True"
            /\ ~RecordWritten
    /\ \A k \in CallsOf("create_board") :
         \E i \in 1..(k - 1) : ListedNoMatch(calls[i])

\* C6 (as claimed): whatever the text-generation call answers, what
\* generate_ai_description returns is a description, a str, and the run goes
\* on past the writing of the description file.
TextCallIssued == CallsOf("text_generation") # {}

C6_DescriptionAlwaysReturned ==
    TextCallIssued =>
        /\ description.type = "str"
        /\ raised # "TypeError"

\* C7 (as claimed): the description is the generated text exactly when the call
\* was made, answered 200 and carried a non-empty text; otherwise it is the
\* template text.
TextCallSucceeded ==
    /\ TextCallIssued
    /\ LET c == calls[1]
       IN /\ Answered(c) /\ c.status = 200 /\ c.wellformed
          /\ c.body[1].type = "str" /\ c.body[1].val # <<>>

IsTemplateText(d) ==
    d \in {PyStr(generate_template_description(product[1])),
           PyStr(generate_description(product[1]))}

C7_GeneratedIffSucceeded ==
    pc = "write_description" =>
        IF TextCallSucceeded
        THEN description = calls[1].body[1]
        ELSE IsTemplateText(description)

\* C8: the title and the description placed in the create-pin request are
\* prefixes of those given, of at most 100 and 800 characters; what is within
\* the limit is submitted unchanged, what is longer is cut, and the request is
\* issued all the same.
IsPrefixCut(given, sent, limit) ==
    /\ Len(sent) <= limit
    /\ sent = SubSeq(given, 1, Len(sent))
    /\ Len(given) <= limit => sent = given
    /\ Len(given) > limit => Len(sent) = limit

C8_RequestWithinLimits ==
    /\ pin_data # <<>> =>
         /\ IsPrefixCut(title, pin_data[1].title, 100)
         /\ IsPrefixCut(description.val, pin_data[1].description, 800)
    /\ \A k \in CallsOf("put_bytes") :
         (TransferSucceeded(calls[k]) /\ media_id # "") =>
            pc = "create_pin" \/ CallsOf("create_pin") # {}
    /\ pin_data # <<>> <=> CallsOf("create_pin") # {}

\* C8 witness: a request was issued for a title over 100 and a description
\* over 800 characters
C8_Witness ==
    /\ pin_data # <<>>
    /\ Len(title) > 100
    /\ Len(description.val) > 800
    /\ Len(pin_data[1].title) = 100
    /\ Len(pin_data[1].description) = 800

\* C9: in review mode no call to the platform is issued before the answer to
\* the prompt; on an answer that is not a yes the run ends with no call to the
\* platform and no record, and the image and description files stay as written.
SaidYes == answer # <<>> /\ lower(strip(answer[1])) \in {<<"y","e","s">>, <<"y">>}

C9_ReviewGate ==
    ~auto_post =>
        /\ answer = <<>> => PlatformCalls = {} /\ ~RecordWritten
        /\ (answer # <<>> /\ ~SaidYes) =>
              /\ RunFailed
              /\ PlatformCalls = {}
              /\ ~RecordWritten
              /\ image_file = <<product[1]>>
              /\ desc_file = <<description.val>>

\* C9 witness: "no" was answered after the text-generation call and the files
\* were written
C9_Witness ==
    /\ ~auto_post
    /\ answer = << <<"n","o">> >>
    /\ pc = "done"
    /\ TextCallIssued
    /\ image_file # <<>>
    /\ desc_file # <<>>

\* C10: when the history file is not valid JSON, save_posting_record fails
\* with the exception escaping the run and leaves the file as it was.
C10_CorruptHistoryIsFatal ==
    [][(pc = "save_record" /\ history_file.state = "malformed") =>
          /\ pc' = "crashed"
          /\ raised' # "none"
          /\ result' # "True"
          /\ history_file' = history_file]_vars

\* C10 witness: the pin was created and the run failed on the history file
C10_Witness ==
    /\ \E k \in DOMAIN calls : PinCreated(calls[k])
    /\ pc = "crashed"
    /\ raised = "JSONDecodeError"
    /\ history_file.state = "malformed"

\* C11: every save_posting_record that succeeds leaves in the file the history
\* it found (none for an absent file) followed by exactly one new record, the
\* one of this save; no step removes, moves or changes a record already there.
HistoryOf(file) == IF file.state = "valid" THEN file.records ELSE <<>>

C11_HistoryAppendOnly ==
    [][/\ (pc = "save_record" /\ pc' = "done") =>
            /\ history_file'.state = "valid"
            /\ history_file'.records =
                  Append(HistoryOf(history_file),
                         PostingRecord(product[1], affiliate_link, Today))
       /\ Len(history_file'.records) >= Len(history_file.records)
       /\ \A i \in DOMAIN history_file.records :
            history_file'.records[i] = history_file.records[i]]_vars

\* C11 witness: two saves have been added, in order, to a history of two
\* different records
C11_Witness ==
    /\ entry = "save_posting_record"
    /\ pc = "done"
    /\ Len(history_file.records) = 4
    /\ history_file.records[1] = OldRecord
    /\ history_file.records[2] = OlderRecord
    /\ history_file.records[3].asin = "B2"
    /\ history_file.records[4].asin = "B1"
    /\ history_file.records[4].date = Today

\* C12: within a run each of the board-list, create-board, registration,
\* byte-transfer and create-pin calls and the text-generation call is issued
\* at most once, whatever the calls answered.
AllOps == PlatformOps \cup {"text_generation"}

C12_NoRetries ==
    \A op \in AllOps : Cardinality(CallsOf(op)) <= 1

\* C12 witness: the text-generation and the board-list call failed, the
\* create-pin call was refused, and the run ended with six calls, one of each
C12_Witness ==
    /\ pc = "done"
    /\ result = "False"
    /\ \A op \in AllOps : Cardinality(CallsOf(op)) = 1
    /\ calls[1].raised
    /\ calls[2].status = 500
    /\ calls[6].op = "create_pin" /\ calls[6].status = 500

\* C13 (as claimed): when a call to the platform raises instead of answering,
\* the run ends with a failure reported, generate_and_post returning False,
\* and no exception escapes it.
C13_TransportFailureReported ==
    \A k \in PlatformCalls :
        calls[k].raised =>
            /\ pc = "done"
            /\ result = "False"
            /\ raised = "none"

\* C14: on an empty catalog select_daily_product fails, the error escaping the
\* run, and nothing after it is performed: no image, no description, no call,
\* no record.
C14_EmptyCatalogFails ==
    (Len(bestsellers) = 0 /\ pc # "select") =>
        /\ pc = "crashed"
        /\ raised = "IndexError"
        /\ result = "none"
        /\ product = <<>>
        /\ image_file = <<>>
        /\ description = PyNone
        /\ desc_file = <<>>
        /\ affiliate_link = <<>>
        /\ calls = <<>>
        /\ pin_data = <<>>
        /\ ~RecordWritten

\* C14 witness: a run on the empty catalog, with the AI description asked for,
\* has failed in the selection
C14_Witness ==
    /\ entry = "generate_and_post"
    /\ bestsellers = <<>>
    /\ use_ai /\ anthropic_key
    /\ pc = "crashed"
    /\ raised = "IndexError"

\* C15 (as claimed): for a product whose identifier is empty no affiliate link
\* is built: the run stops there, and no link is submitted in a create-pin
\* request or written to the history.
C15_EmptyProductIdRejected ==
    (product # <<>> /\ product[1].asin = "") =>
        /\ affiliate_link = <<>>
        /\ pc \in {"render", "describe", "write_description", "crashed"}
        /\ pin_data = <<>>
        /\ ~RecordWritten

\* C16: when use_ai is false or no key is configured, the run issues no call
\* to the text-generation service and its description is a template text; and
\* generate_ai_description itself, without a key, issues no call and returns
\* its template.
C16_NoCallWithoutKeyOrFlag ==
    (~use_ai \/ ~anthropic_key) =>
        /\ ~TextCallIssued
        /\ pc \notin {"select", "render", "describe", "crashed"} =>
              /\ description = PyStr(generate_description(product[1]))
              /\ IsTemplateText(description)
        /\ product # <<>> =>
              \A resp \in AiResponses :
                 LET r == generate_ai_description(FALSE, product[1], resp)
                 IN /\ ~r.called
                    /\ r.raised = "none"
                    /\ r.value = PyStr(generate_template_description(product[1]))

\* C16 witness: a run with use_ai set and no key has published its pin with
\* the template description
C16_Witness ==
    /\ use_ai /\ ~anthropic_key
    /\ pc = "done" /\ result = "True"
    /\ ~TextCallIssued
    /\ pin_data # <<>>
    /\ pin_data[1].description = generate_description(product[1])

\* C17 (as claimed): the template description depends on the product alone:
\* the text a run falls back to after a failed text-generation call is the
\* text a run without that call gets for the same product.
TextCallFailed ==
    /\ TextCallIssued
    /\ LET c == calls[1] IN c.raised \/ c.status # 200 \/ ~c.wellformed

DirectTemplate(product_info) == PyStr(generate_description(product_info))

C17_TemplateSameOnEveryPath ==
    /\ (pc = "write_description" /\ ~TextCallIssued) =>
          description = DirectTemplate(product[1])
    /\ (pc = "write_description" /\ TextCallFailed) =>
          description = DirectTemplate(product[1])

\* C18 (amended): a run appends a record if and only if its create-pin call
\* succeeded and the history file it found could be loaded.  A run that
\* reports success has created its pin and has appended to the history it
\* found exactly one record, whose product identifier and link are those of
\* the create-pin request; a run that ended otherwise (failed, cancelled, or by
\* an error) has left the history file as it found it.
RunEnded == pc \in {"done", "crashed", "exited"}

ReportedSuccess == pc = "done" /\ result = "True"

PinWasCreated == \E k \in DOMAIN calls : PinCreated(calls[k])

C18_RecordIffPinCreated ==
    /\ ReportedSuccess =>
          /\ Len(calls) > 0 /\ PinCreated(calls[Len(calls)])
          /\ \E f \in RunHistoryFiles :
                /\ f.state # "malformed"
                /\ history_file.state = "valid"
                /\ Len(history_file.records) = Len(f.records) + 1
                /\ SubSeq(history_file.records, 1, Len(f.records)) = f.records
          /\ LET rec == history_file.records[Len(history_file.records)]
             IN /\ rec.date = Today
                /\ rec.affiliate_link = pin_data[1].link
                /\ AffiliateLink(rec.asin) = pin_data[1].link
                /\ rec.asin = product[1].asin
                /\ rec.product = product[1].name
    /\ RecordWritten => PinWasCreated
    /\ (RunEnded /\ PinWasCreated /\ history_file.state # "malformed") =>
          ReportedSuccess /\ RecordWritten
    /\ (RunEnded /\ ~ReportedSuccess) => history_file \in RunHistoryFiles
    /\ ~RunEnded => history_file \in RunHistoryFiles

\* C18 (as claimed): at the end of a run a record of the run is in the history
\* if and only if the run's create-pin call succeeded.
C18_AsClaimed ==
    RunEnded => (RecordWritten <=> PinWasCreated)

\* C18 witness: a run on a history of one record reported success and the
\* file holds that record and the new one
C18_Witness ==
    /\ ReportedSuccess
    /\ Len(history_file.records) = 2
    /\ history_file.records[1] = OldRecord
    /\ history_file.records[2].asin = "B1"
    /\ history_file.records[2].affiliate_link = pin_data[1].link

\* C19 (as claimed): a create-pin answer of any 2xx status publishes: the run
\* goes on to the record and reports success; an answer outside 2xx ends the
\* run failed.
C19_Any2xxPublishes ==
    \A k \in CallsOf("create_pin") :
        LET c == calls[k]
        IN /\ (Answered(c) /\ Is2xx(c.status) /\ c.wellformed) =>
                \/ pc = "save_record"
                \/ ReportedSuccess /\ RecordWritten
                \/ pc = "crashed" /\ raised = "JSONDecodeError"
           /\ (Answered(c) /\ ~Is2xx(c.status)) => RunFailed /\ ~RecordWritten

\* C20: an ingredient reported by the selection is one of the trending
\* ingredients and is contained, case-insensitively, in the name of the
\* product selected; a selection by the first-candidate fallback reports none,
\* and a selection of a qualifying candidate reports one.
IsMatchOf(ing, p) ==
    /\ \E k \in DOMAIN trending_ingredients : trending_ingredients[k] = ing
    /\ Contains(lower(ing), lower(p.name))

C20_ReportedIngredientMatches ==
    /\ ingredient.type = "str" =>
          /\ product # <<>>
          /\ IsMatchOf(ingredient.val, product[1])
          /\ Qualifies(product[1])
    /\ (pc = "done" /\ \A i \in DOMAIN bestsellers : ~Qualifies(bestsellers[i])) =>
          /\ product = <<bestsellers[1]>>
          /\ ingredient = PyNone
    /\ (pc = "done" /\ \E i \in DOMAIN bestsellers : Qualifies(bestsellers[i])) =>
          ingredient.type = "str"
    /\ \A i \in DOMAIN bestsellers :
          LET m == check_trending_match(trending_ingredients, bestsellers[i].name)
          IN IF m[1] THEN m[2].type = "str" /\ IsMatchOf(m[2].val, bestsellers[i])
             ELSE m[2] = PyNone

\* C20 witness: the second ingredient of the list is reported, for a name that
\* holds it in another case only
C20_Witness ==
    /\ pc = "done"
    /\ Len(trending_ingredients) = 2
    /\ ingredient = PyStr(trending_ingredients[2])
    /\ trending_ingredients[1] # trending_ingredients[2]
    /\ ~Contains(ingredient.val, product[1].name)

\* C21: a publish step that fails for good ends the run there: no step follows
\* it, and the image file and the description file are as they were written;
\* no step of the publication removes or rewrites either file.
PublishSteps == {"list_boards", "create_board", "register", "put", "create_pin"}

C21_FailureLeavesArtifacts ==
    [][/\ ~RunEnded
       /\ (pc \in PublishSteps) =>
            /\ image_file' = image_file
            /\ desc_file' = desc_file
            /\ image_file = <<product[1]>>
            /\ desc_file = <<description.val>>
       /\ (pc \in PublishSteps /\ RunEnded' /\ ~ReportedSuccess') =>
            /\ image_file' = <<product[1]>>
            /\ desc_file' = <<description.val>>
            /\ history_file' = history_file]_vars

\* C21 witness: the create-pin call was refused and the run ended failed with
\* both files in place
C21_Witness ==
    /\ RunFailed
    /\ Len(calls) > 0
    /\ calls[Len(calls)].op = "create_pin" /\ calls[Len(calls)].status = 500
    /\ image_file = <<product[1]>>
    /\ desc_file = <<description.val>>

\* C22: when every call and the prompt come back, a run ends, in exactly one of
\* three ways: published, failed, or cancelled at the review prompt; once it
\* has ended it issues no call and writes no history.
Published == pc = "done" /\ result = "True"

Cancelled == pc = "done" /\ result = "False" /\ ~auto_post /\ answer # <<>> /\ ~SaidYes

Failed ==
    \/ pc \in {"crashed", "exited"}
    \/ pc = "done" /\ result = "False" /\ (auto_post \/ SaidYes)

OneOutcome ==
    /\ Published \/ Failed \/ Cancelled
    /\ ~(Published /\ Failed) /\ ~(Published /\ Cancelled) /\ ~(Failed /\ Cancelled)

C22_RunTerminates ==
    /\ <>RunEnded
    /\ [](RunEnded => OneOutcome)
    /\ [][RunEnded => (RunEnded' /\ pc' = pc /\ result' = result /\ calls' = calls
                         /\ history_file' = history_file)]_vars

\* C22 witness: a run that made all six calls has ended published, its record
\* written
C22_Witness ==
    /\ Published
    /\ Len(calls) = 6
    /\ calls[6].op = "create_pin"
    /\ RecordWritten

=============================================================================
